---- MODULE Spec2Model ----
(***************************************************************************)
(* Model of tw_pywrap: the block parser and argument mappers of helper.py, *)
(* the overwrite handler, the dispatch handlers, and the command executor  *)
(* of tower.py.  One configuration section (block) is parsed into command  *)
(* specifications; each is then reconciled (overwrite) and dispatched.     *)
(* The log is the sequence of `tw` commands handed to Tower._tw_run.       *)
(***************************************************************************)
EXTENDS Integers, Sequences, FiniteSets, TLC

VARIABLES block, doc, pc, cmd_args_list, idx, log, mark, exc, resp, resp2

vars == <<block, doc, pc, cmd_args_list, idx, log, mark, exc, resp, resp2>>

(***************************************************************************)
(* Bounds of the explored inputs.                                          *)
(***************************************************************************)
\* fields of the item of a one-item section
MaxFields == 5
\* items of a section
MaxItems == 2
\* fields, in total, of the items of a section with several items
MaxListFields == 2
\* records of a listing response
MaxRecords == 2

(***************************************************************************)
(* Python values.  A scalar is a string or a bool; `members` is a list of  *)
(* strings and `params` a nested mapping (s holds its text).  None is a    *)
(* token no string of the inputs equals; NoneId is None where an           *)
(* identifier (a number of the listing) is expected.                       *)
(***************************************************************************)
None == "<None>"
NoneId == 0

S(x) == [kind |-> "str", s |-> x, b |-> FALSE, l |-> <<>>]
B(x) == [kind |-> "bool", s |-> "", b |-> x, l |-> <<>>]
L(x) == [kind |-> "list", s |-> "", b |-> FALSE, l |-> x]
M(x) == [kind |-> "map", s |-> x, b |-> FALSE, l |-> <<>>]

\* fold of a sequence into the concatenation of F of its elements, in order
FlatMap(F(_), seq) ==
  LET go[i \in 0..Len(seq)] == IF i = 0 THEN <<>> ELSE go[i - 1] \o F(seq[i])
  IN go[Len(seq)]

\* str(list of strings): "['m1', 'm2']"
ListRepr(l) ==
  LET go[i \in 0..Len(l)] ==
        IF i = 0 THEN ""
        ELSE go[i - 1] \o (IF i = 1 THEN "" ELSE ", ") \o "'" \o l[i] \o "'"
  IN "[" \o go[Len(l)] \o "]"

\* str(value)
PyStr(v) ==
  CASE v.kind = "str" -> v.s
    [] v.kind = "bool" -> (IF v.b THEN "True" ELSE "False")
    [] v.kind = "list" -> ListRepr(v.l)
    [] v.kind = "map" -> v.s

\* str(identifier)
StrId(i) == IF i = NoneId THEN "None" ELSE ToString(i)

\* truth value of a Python value (`if overwrite:`)
Truthy(v) ==
  CASE v.kind = "str" -> v.s # ""
    [] v.kind = "bool" -> v.b
    [] v.kind = "list" -> v.l # <<>>
    [] v.kind = "map" -> TRUE

(***************************************************************************)
(* Resource types and the items of the explored configuration documents.   *)
(* An item is an ordered mapping: a sequence of fields with distinct keys. *)
(***************************************************************************)
generic_deletion ==
  {"credentials", "secrets", "compute-envs", "datasets", "actions", "pipelines"}

Blocks ==
  generic_deletion \cup
  {"organizations", "teams", "participants", "workspaces", "launch", "info"}

BlockKeys(b) ==
  CASE b = "credentials" -> {"type", "name", "workspace", "overwrite"}
    [] b = "secrets" -> {"name", "workspace", "value", "overwrite"}
    [] b = "compute-envs" -> {"file-path", "name", "workspace", "overwrite"}
    [] b = "datasets" ->
         {"file-path", "name", "workspace", "description", "header", "overwrite"}
    [] b = "actions" -> {"type", "params", "name", "workspace", "overwrite"}
    [] b = "pipelines" ->
         {"url", "file-path", "params", "name", "workspace", "overwrite"}
    [] b = "launch" -> {"pipeline", "url", "params", "workspace", "overwrite"}
    [] b = "teams" ->
         {"name", "organization", "description", "members", "overwrite"}
    [] b = "participants" -> {"name", "type", "workspace", "role", "overwrite"}
    [] b = "workspaces" -> {"name", "organization", "description", "overwrite"}
    [] b = "organizations" -> {"name", "full-name", "overwrite"}
    [] OTHER -> {}

FieldValues(b, k) ==
  CASE k = "overwrite" -> {B(TRUE), B(FALSE)}
    [] k = "header" -> {B(TRUE), B(FALSE)}
    [] k = "name" -> (IF b = "credentials" THEN {S("a"), S("--name")} ELSE {S("a")})
    [] k = "type" ->
         (IF b = "participants" THEN {S("TEAM"), S("MEMBER")}
          ELSE IF b = "credentials" THEN {S("aws")} ELSE {S("tower")})
    [] k = "role" -> {S("admin"), S("--role")}
    [] k = "workspace" -> {S("w")}
    [] k = "organization" -> {S("o1")}
    [] k = "description" -> {S("d")}
    [] k = "value" -> {S("v")}
    [] k = "full-name" -> {S("A")}
    [] k = "file-path" ->
         (IF b = "datasets" THEN {S("f.csv")}
          ELSE IF b = "pipelines" THEN {S("p.json")} ELSE {S("ce.json")})
    [] k = "url" -> {S("https://x")}
    [] k = "pipeline" -> {S("nf-hello")}
    [] k = "params" -> {M("{'outdir': 'results'}")}
    [] k = "members" -> {L(<<"m1", "m2">>), L(<<>>)}

ItemKeys(item) == {item[i].key : i \in 1..Len(item)}

\* the items that extend it by one field
NewFields(b, it) ==
  UNION {{Append(it, [key |-> k, value |-> v]) : v \in FieldValues(b, k)}
         : k \in BlockKeys(b) \ ItemKeys(it)}

\* the items of exactly n fields
RECURSIVE ItemsOfLen(_, _)
ItemsOfLen(b, n) ==
  IF n = 0 THEN {<<>>}
  ELSE UNION {NewFields(b, it) : it \in ItemsOfLen(b, n - 1)}

ItemsUpTo(b, n) == UNION {ItemsOfLen(b, k) : k \in 0..n}

\* the sequences of n items with at most f fields in total
RECURSIVE ItemLists(_, _, _)
ItemLists(b, n, f) ==
  IF n = 0 THEN {<<>>}
  ELSE UNION {
         {<<it>> \o rest : rest \in ItemLists(b, n - 1, f - Len(it))}
         : it \in ItemsUpTo(b, f)}

\* a document's section: absent, or a list of items
Docs(b) ==
  {[present |-> FALSE, items |-> <<>>]} \cup
  {[present |-> TRUE, items |-> <<it>>] : it \in ItemsUpTo(b, MaxFields)} \cup
  {[present |-> TRUE, items |-> its] :
     its \in UNION {ItemLists(b, n, MaxListFields) : n \in {0} \cup 2..MaxItems}}

(***************************************************************************)
(* Strings.  The strings of the model that start with "--" are the flags   *)
(* built from a field key and the fixed flags of the handlers; a value may *)
(* itself be such a string.                                                *)
(***************************************************************************)
DashWords ==
  UNION {BlockKeys(b) : b \in Blocks} \cup {"params-file", "team", "member", "id"}

\* arg.startswith("--")
StartsWithDashes(a) == \E w \in DashWords : a = "--" \o w

\* arg[2:], for an arg that starts with "--"
DropDashes(a) == CHOOSE w \in DashWords : a = "--" \o w

\* f"--{key}"
Flag(k) == "--" \o k

\* ".json" in arg
HasJsonMarker(a) == a \in {"p.json", "ce.json"}

Has(item, k) == k \in ItemKeys(item)

\* item[k], for a key of the item
Get(item, k) == item[CHOOSE i \in 1..Len(item) : item[i].key = k].value

\* the item without its field k
Without(item, k) == SelectSeq(item, LAMBDA f : f.key # k)

(***************************************************************************)
(* Argument mappers.  Each returns the mapped arguments (members: the      *)
(* per-member lists of teams) and exc, the exception raised ("" if none).  *)
(***************************************************************************)
Mapped(args) == [exc |-> "", cmd_args |-> args, members |-> <<>>]
MapRaised(e) == [exc |-> e, cmd_args |-> <<>>, members |-> <<>>]

create_temp_yaml(value) == "tmp.yaml"

parse_generic_block(item) ==
  Mapped(FlatMap(LAMBDA f : <<Flag(f.key), PyStr(f.value)>>, item))

parse_credentials_block(item) ==
  Mapped(FlatMap(LAMBDA f : IF f.key = "type" THEN <<PyStr(f.value)>>
                            ELSE <<Flag(f.key), PyStr(f.value)>>, item))

parse_compute_envs_block(item) ==
  Mapped(FlatMap(LAMBDA f : IF f.key = "file-path" THEN <<PyStr(f.value)>>
                            ELSE <<Flag(f.key), PyStr(f.value)>>, item))

parse_teams_block(item) ==
  LET cmd_keys == {"name", "organization", "description"}
      members == IF Has(item, "members") THEN Get(item, "members").l ELSE <<>>
  IN IF members # <<>> /\ ~(Has(item, "name") /\ Has(item, "organization"))
     THEN MapRaised("KeyError")
     ELSE [exc |-> "",
           cmd_args |->
             FlatMap(LAMBDA f : IF f.key \in cmd_keys
                                THEN <<Flag(f.key), PyStr(f.value)>>
                                ELSE <<>>, item),
           members |->
             [i \in 1..Len(members) |->
                <<"--team", PyStr(Get(item, "name")),
                  "--organization", PyStr(Get(item, "organization")),
                  "add", "--member", members[i]>>]]

parse_actions_block(item) ==
  Mapped(FlatMap(LAMBDA f :
                   IF f.key = "type" THEN <<PyStr(f.value)>>
                   ELSE IF f.key = "params"
                        THEN <<"--params-file", create_temp_yaml(f.value)>>
                        ELSE <<Flag(f.key), PyStr(f.value)>>, item))

parse_datasets_block(item) ==
  IF Has(item, "file-path")
     /\ ~(Has(item, "name") /\ Has(item, "workspace") /\ Has(item, "description"))
  THEN MapRaised("KeyError")
  ELSE Mapped(FlatMap(LAMBDA f :
                 (IF f.key = "file-path"
                  THEN <<PyStr(Get(item, "file-path")),
                         "--name", PyStr(Get(item, "name")),
                         "--workspace", PyStr(Get(item, "workspace")),
                         "--description", PyStr(Get(item, "description"))>>
                  ELSE <<>>)
                 \o (IF f.key = "header" /\ f.value = B(TRUE)
                     THEN <<"--header">> ELSE <<>>), item))

parse_pipelines_block(item) ==
  LET repo_args == FlatMap(LAMBDA f : IF f.key \in {"url", "file-path"}
                                      THEN <<PyStr(f.value)>> ELSE <<>>, item)
      params_args == FlatMap(LAMBDA f :
                               IF f.key = "params"
                               THEN <<"--params-file", create_temp_yaml(f.value)>>
                               ELSE <<>>, item)
      cmd_args == FlatMap(LAMBDA f :
                            IF f.key \in {"url", "file-path", "params"} THEN <<>>
                            ELSE <<Flag(f.key), PyStr(f.value)>>, item)
  IN Mapped(repo_args \o params_args \o cmd_args)

\* mutant: the repository references are appended after the flags
parse_launch_block_repo_last(item) ==
  LET repo_args == FlatMap(LAMBDA f : IF f.key \in {"pipeline", "url"}
                                      THEN <<PyStr(f.value)>> ELSE <<>>, item)
      cmd_args == FlatMap(LAMBDA f :
                            IF f.key \in {"pipeline", "url"} THEN <<>>
                            ELSE IF f.key = "params"
                                 THEN <<"--params-file", create_temp_yaml(f.value)>>
                                 ELSE <<Flag(f.key), PyStr(f.value)>>, item)
  IN Mapped(cmd_args \o repo_args)

parse_launch_block(item) ==
  LET repo_args == FlatMap(LAMBDA f : IF f.key \in {"pipeline", "url"}
                                      THEN <<PyStr(f.value)>> ELSE <<>>, item)
      cmd_args == FlatMap(LAMBDA f :
                            IF f.key \in {"pipeline", "url"} THEN <<>>
                            ELSE IF f.key = "params"
                                 THEN <<"--params-file", create_temp_yaml(f.value)>>
                                 ELSE <<Flag(f.key), PyStr(f.value)>>, item)
  IN Mapped(repo_args \o cmd_args)

\* block_to_function.get(block_name, parse_generic_block)
parse_fn(block_name, item) ==
  CASE block_name = "credentials" -> parse_credentials_block(item)
    [] block_name = "compute-envs" -> parse_compute_envs_block(item)
    [] block_name = "teams" -> parse_teams_block(item)
    [] block_name = "actions" -> parse_actions_block(item)
    [] block_name = "datasets" -> parse_datasets_block(item)
    [] block_name = "pipelines" -> parse_pipelines_block(item)
    [] block_name = "launch" -> parse_launch_block(item)
    [] OTHER -> parse_generic_block(item)

\* mutant: item.pop("overwrite", True)
pop_overwrite_default_true(item) ==
  [value |-> IF Has(item, "overwrite") THEN Get(item, "overwrite") ELSE B(TRUE),
   item |-> Without(item, "overwrite")]

\* mutant: item.get("overwrite", False), the field stays in the item
pop_overwrite_get(item) ==
  [value |-> IF Has(item, "overwrite") THEN Get(item, "overwrite") ELSE B(FALSE),
   item |-> item]

\* item.pop("overwrite", False)
pop_overwrite(item) ==
  [value |-> IF Has(item, "overwrite") THEN Get(item, "overwrite") ELSE B(FALSE),
   item |-> Without(item, "overwrite")]

parse_block(block_name, item) ==
  LET popped == pop_overwrite(item)
      r == parse_fn(block_name, popped.item)
  IN [exc |-> r.exc, cmd_args |-> r.cmd_args, members |-> r.members,
      overwrite |-> popped.value]

\* the result of parse_yaml_block for a section: the list of command
\* specifications, or the exception that leaves it
parse_yaml_block(d, block_name) ==
  IF ~d.present
  THEN [exc |-> "NameError", list |-> <<>>]
  ELSE LET parsed == [i \in 1..Len(d.items) |-> parse_block(block_name, d.items[i])]
           bad == {i \in 1..Len(parsed) : parsed[i].exc # ""}
       IN IF bad # {}
          THEN [exc |-> parsed[CHOOSE i \in bad : \A j \in bad : i <= j].exc,
                list |-> <<>>]
          ELSE [exc |-> "", list |-> parsed]

(***************************************************************************)
(* Command executor (tower.py).  A command is the list of its tokens.      *)
(* _tw_run quotes every token (arg.startswith("$"), shlex.quote), which    *)
(* raises AttributeError on a None token before the process is started.    *)
(***************************************************************************)
Runnable(command) == \A i \in 1..Len(command) : command[i] # None

\* the command line _tw_run runs for TwCommand(cmd)(*args)
_tw_run(cmd) == <<"tw">> \o cmd

\* the outcome of a handler: the commands it ran, in order, and the
\* exception that left it ("" if it returned)
Returned(cmds) == [cmds |-> cmds, exc |-> ""]
Raised(cmds, e) == [cmds |-> cmds, exc |-> e]

(***************************************************************************)
(* Listing responses: the text `tw -o json <block> list` prints.  Either   *)
(* it does not parse as JSON (ok = FALSE), or it is a mapping that holds   *)
(* the list of records under the block's key, or lacks that key.           *)
(***************************************************************************)
RemoteNames == {"a", "b"}
RemoteOrgs == {"o1", "o2"}

\* a record of the listing, but for its identifier
Records(b) ==
  CASE b = "workspaces" -> [orgName : RemoteOrgs, workspaceName : RemoteNames]
    [] b = "teams" -> [name : RemoteNames]
    [] b = "organizations" -> [orgName : RemoteNames]
    [] b = "participants" -> [email : {"a"}] \cup [teamName : {"a"}]
    [] OTHER -> [name : RemoteNames]

\* identifiers are unique in a listing: the i-th record carries identifier i
WithId(b, r, i) ==
  CASE b = "workspaces" ->
         [orgName |-> r.orgName, workspaceName |-> r.workspaceName, workspaceId |-> i]
    [] b = "teams" -> [name |-> r.name, teamId |-> i]
    [] OTHER -> r

RecordLists(b, max) ==
  {[i \in 1..Len(recs) |-> WithId(b, recs[i], i)] :
     recs \in UNION {[1..n -> Records(b)] : n \in 0..max}}

BadResp == [ok |-> FALSE, haskey |-> FALSE, recs |-> <<>>]
NoResp == [ok |-> TRUE, haskey |-> FALSE, recs |-> <<>>]

Responses(b, max) ==
  {BadResp, NoResp}
  \cup {[ok |-> TRUE, haskey |-> TRUE, recs |-> r] : r \in RecordLists(b, max)}

\* the index of the first record whose field key equals value, 0 if none
FirstMatch(recs, key, value) ==
  LET hits == {i \in 1..Len(recs) : key \in DOMAIN recs[i] /\ recs[i][key] = value}
  IN IF hits = {} THEN 0 ELSE CHOOSE i \in hits : \A j \in hits : i <= j

\* utils.check_if_exists on a response that parses
check_if_exists(json_data, namekey, namevalue) ==
  FirstMatch(json_data.recs, namekey, namevalue) # 0

\* utils.find_key_value_in_dict on a response that parses
find_key_value_in_dict(json_data, target_key, target_value, return_key) ==
  LET i == FirstMatch(json_data.recs, target_key, target_value)
  IN IF i = 0 THEN NoneId ELSE json_data.recs[i][return_key]

\* utils.is_url
is_url(a) == a \in {"https://x"}

\* mutant: the workspace is looked up by its name alone
find_workspace_id_by_name(json_data, organization, workspace_name) ==
  LET recs == json_data.recs
      hits == {i \in 1..Len(recs) : recs[i].workspaceName = workspace_name}
  IN IF ~json_data.haskey \/ hits = {} THEN NoneId
     ELSE recs[CHOOSE i \in hits : \A j \in hits : i <= j].workspaceId

\* find_workspace_id on a response that parses
find_workspace_id(json_data, organization, workspace_name) ==
  LET recs == json_data.recs
      hits == {i \in 1..Len(recs) :
                 /\ recs[i].orgName = organization
                 /\ recs[i].workspaceName = workspace_name}
  IN IF ~json_data.haskey \/ hits = {} THEN NoneId
     ELSE recs[CHOOSE i \in hits : \A j \in hits : i <= j].workspaceId

\* the loop of get_values_from_cmd_args over the remaining arguments
RECURSIVE get_values_loop(_, _, _, _)
get_values_loop(cmd_args, keys, values, key) ==
  IF cmd_args = <<>> THEN values
  ELSE IF StartsWithDashes(Head(cmd_args))
       THEN get_values_loop(Tail(cmd_args), keys, values, DropDashes(Head(cmd_args)))
       ELSE get_values_loop(Tail(cmd_args), keys,
                            IF key # None /\ key \in keys
                            THEN [values EXCEPT ![key] = Head(cmd_args)]
                            ELSE values,
                            None)

get_values_from_cmd_args(cmd_args, keys) ==
  get_values_loop(cmd_args, keys, [k \in keys |-> None], None)

(***************************************************************************)
(* Overwrite handler.                                                      *)
(***************************************************************************)
HasOperation(b) ==
  b \in generic_deletion \cup {"organizations", "teams", "participants", "workspaces"}

\* block_operations[block]["keys"]
operation_keys(b) ==
  CASE b = "organizations" -> {"name"}
    [] b = "teams" -> {"name", "organization"}
    [] b = "participants" -> {"name", "type", "workspace"}
    [] b = "workspaces" -> {"name", "organization"}
    [] OTHER -> {"name", "workspace"}

\* block_operations[block]["name_key"], as the existence test uses it
operation_name_key(b, tw_args) ==
  CASE b = "organizations" -> "orgName"
    [] b = "teams" -> "name"
    [] b = "participants" -> (IF tw_args["type"] = "TEAM" THEN "teamName" ELSE "email")
    [] b = "workspaces" -> "workspaceId"
    [] OTHER -> "name"

\* the list command of the existence check
list_command(b, tw_args) ==
  CASE b = "teams" -> <<"-o", "json", b, "list", "-o", tw_args["organization"]>>
    [] b \in generic_deletion \cup {"participants"} ->
         <<"-o", "json", b, "list", "-w", tw_args["workspace"]>>
    [] OTHER -> <<"-o", "json", b, "list">>

\* get_delete_identifier for teams: its list command and, from the response
\* r2 to it, the identifier
get_delete_identifier_command(tw_args) ==
  <<"-o", "json", "teams", "list", "-o", tw_args["organization"]>>

get_delete_identifier(r2, tw_args) ==
  find_key_value_in_dict(r2, "name", tw_args["name"], "teamId")

\* mutant: the generic delete is not scoped to the workspace
method_args_unscoped(b, tw_args, wid, tid) ==
  CASE b = "organizations" -> <<"delete", "--name", tw_args["name"]>>
    [] b = "teams" ->
         <<"delete", "--id", StrId(tid), "--organization", tw_args["organization"]>>
    [] b = "participants" ->
         <<"delete", "--name", tw_args["name"], "--type", tw_args["type"],
           "--workspace", tw_args["workspace"]>>
    [] b = "workspaces" -> <<"delete", "--id", StrId(wid)>>
    [] OTHER -> <<"delete", "--name", tw_args["name"]>>

\* block_operations[block]["method_args"](tw_args); wid is the workspace
\* identifier that replaced tw_args["name"], tid the team identifier
method_args(b, tw_args, wid, tid) ==
  CASE b = "organizations" -> <<"delete", "--name", tw_args["name"]>>
    [] b = "teams" ->
         <<"delete", "--id", StrId(tid), "--organization", tw_args["organization"]>>
    [] b = "participants" ->
         <<"delete", "--name", tw_args["name"], "--type", tw_args["type"],
           "--workspace", tw_args["workspace"]>>
    [] b = "workspaces" -> <<"delete", "--id", StrId(wid)>>
    [] OTHER ->
         <<"delete", "--name", tw_args["name"], "--workspace", tw_args["workspace"]>>

\* whether the resource exists, from the response r1 that parses
Exists(b, tw_args, r1) ==
  IF b = "workspaces"
  THEN check_if_exists(r1, "workspaceId",
         find_workspace_id(r1, tw_args["organization"], tw_args["name"]))
  ELSE check_if_exists(r1, operation_name_key(b, tw_args), tw_args["name"])

\* handle_overwrite(tw, block, args), with the responses r1 (existence
\* check) and r2 (identifier resolution of teams) of the remote platform
handle_overwrite(b, args, r1, r2) ==
  IF ~HasOperation(b) THEN Returned(<<>>)
  ELSE
    LET tw_args == get_values_from_cmd_args(args, operation_keys(b))
        list == list_command(b, tw_args)
        wid == find_workspace_id(r1, tw_args["organization"], tw_args["name"])
        list2 == get_delete_identifier_command(tw_args)
        tid == get_delete_identifier(r2, tw_args)
        delete == <<b>> \o method_args(b, tw_args, wid, tid)
    IN IF ~Runnable(list) THEN Raised(<<>>, "AttributeError")
       ELSE IF ~r1.ok THEN Raised(<<_tw_run(list)>>, "JSONDecodeError")
       ELSE IF ~Exists(b, tw_args, r1) THEN Returned(<<_tw_run(list)>>)
       ELSE IF b = "teams" /\ ~r2.ok
            THEN Raised(<<_tw_run(list), _tw_run(list2)>>, "JSONDecodeError")
       ELSE IF ~Runnable(delete)
            THEN Raised(<<_tw_run(list)>>, "AttributeError")
       ELSE IF b = "teams"
            THEN Returned(<<_tw_run(list), _tw_run(list2), _tw_run(delete)>>)
       ELSE Returned(<<_tw_run(list), _tw_run(delete)>>)

\* whether handle_overwrite reads the response to its existence check
ReadsListing(b, args) ==
  /\ HasOperation(b)
  /\ Runnable(list_command(b, get_values_from_cmd_args(args, operation_keys(b))))

\* whether handle_overwrite reads the response to the second list of teams
ReadsSecondListing(b, args, r1) ==
  /\ b = "teams"
  /\ ReadsListing(b, args)
  /\ r1.ok
  /\ Exists(b, get_values_from_cmd_args(args, operation_keys(b)), r1)

(***************************************************************************)
(* Dispatch handlers.                                                      *)
(***************************************************************************)
handle_add_block(b, args) == Returned(<<_tw_run(<<b, "add">> \o args)>>)

handle_info(args) == Returned(<<_tw_run(<<"info">> \o args)>>)

handle_teams(cmd_args, members_cmd_args) ==
  Returned(<<_tw_run(<<"teams", "add">> \o cmd_args)>> \o
           [i \in 1..Len(members_cmd_args) |->
              _tw_run(<<"teams", "members">> \o members_cmd_args[i])])

\* the arguments handle_participants passes to `add`
\* mutant: only the --role token is dropped, its value is kept
participants_new_args_flag_only(args) == SelectSeq(args, LAMBDA a : a # "--role")

\* the loop of handle_participants over the remaining arguments
RECURSIVE participants_loop(_, _, _)
participants_loop(args, new_args, skip_next) ==
  IF args = <<>> THEN new_args
  ELSE IF skip_next \/ Head(args) = "--role"
       THEN participants_loop(Tail(args), new_args, ~skip_next)
       ELSE participants_loop(Tail(args), Append(new_args, Head(args)), skip_next)

participants_new_args(args) == participants_loop(args, <<>>, FALSE)

handle_participants(args) ==
  Returned(<<_tw_run(<<"participants", "add">> \o participants_new_args(args)),
             _tw_run(<<"participants", "update">> \o args)>>)

handle_compute_envs(args) == Returned(<<_tw_run(<<"compute-envs", "import">> \o args)>>)

\* the loop of handle_pipelines over the remaining arguments
RECURSIVE pipelines_loop(_, _)
pipelines_loop(rest, args) ==
  IF rest = <<>> THEN <<>>
  ELSE IF is_url(Head(rest))
       THEN <<_tw_run(<<"pipelines", "add">> \o args)>>
       ELSE IF HasJsonMarker(Head(rest))
            THEN <<_tw_run(<<"pipelines", "import">> \o args)>>
                 \o pipelines_loop(Tail(rest), args)
            ELSE pipelines_loop(Tail(rest), args)

handle_pipelines(args) == Returned(pipelines_loop(args, args))

handle_launch(args) == Returned(<<_tw_run(<<"launch">> \o args)>>)

(***************************************************************************)
(* State machine.  pc is the position of the run: "start", then for each   *)
(* command specification "reconcile", "dispatch", "applied"; "done" at the *)
(* end and "raised" when an exception left the run.  log[mark+1..] are the *)
(* commands of the current specification.                                  *)
(***************************************************************************)
Init ==
  /\ block \in Blocks
  /\ doc \in Docs(block)
  /\ pc = "start"
  /\ cmd_args_list = <<>>
  /\ idx = 0
  /\ log = <<>>
  /\ mark = 0
  /\ exc = ""
  /\ resp = NoResp
  /\ resp2 = NoResp

ParseYamlBlock ==
  /\ pc = "start"
  /\ LET r == parse_yaml_block(doc, block)
     IN /\ cmd_args_list' = r.list
        /\ exc' = r.exc
        /\ pc' = IF r.exc # "" THEN "raised"
                 ELSE IF r.list = <<>> THEN "done" ELSE "reconcile"
        /\ idx' = IF r.exc = "" /\ r.list # <<>> THEN 1 ELSE 0
  /\ UNCHANGED <<block, doc, log, mark, resp, resp2>>

\* the command specification being applied
Cur == cmd_args_list[idx]

\* the responses of the remote platform the overwrite step can read
FirstResponses(b, spec) ==
  IF Truthy(spec.overwrite) /\ ReadsListing(b, spec.cmd_args)
  THEN Responses(b, MaxRecords) ELSE {NoResp}

SecondResponses(b, spec, r1) ==
  IF Truthy(spec.overwrite) /\ ReadsSecondListing(b, spec.cmd_args, r1)
  THEN Responses(b, 1) ELSE {NoResp}

\* the caller's overwrite step: handle_overwrite runs only for a
\* specification whose overwrite flag is set, and an exception leaves the run
Reconcile ==
  /\ pc = "reconcile"
  /\ \E r1 \in FirstResponses(block, Cur) :
     \E r2 \in SecondResponses(block, Cur, r1) :
       /\ LET out == IF Truthy(Cur.overwrite)
                     THEN handle_overwrite(block, Cur.cmd_args, r1, r2)
                     ELSE Returned(<<>>)
          IN /\ log' = log \o out.cmds
             /\ exc' = out.exc
             /\ pc' = IF out.exc # "" THEN "raised" ELSE "dispatch"
       /\ resp' = r1
       /\ resp2' = r2
  /\ UNCHANGED <<block, doc, cmd_args_list, idx, mark>>

\* a dispatch handler ran and returned its commands
Dispatched(out) ==
  /\ log' = log \o out.cmds
  /\ pc' = "applied"
  /\ UNCHANGED <<block, doc, cmd_args_list, idx, mark, exc, resp, resp2>>

HandleTeams ==
  /\ pc = "dispatch" /\ block = "teams"
  /\ Dispatched(handle_teams(Cur.cmd_args, Cur.members))

HandleParticipants ==
  /\ pc = "dispatch" /\ block = "participants"
  /\ Dispatched(handle_participants(Cur.cmd_args))

HandleComputeEnvs ==
  /\ pc = "dispatch" /\ block = "compute-envs"
  /\ Dispatched(handle_compute_envs(Cur.cmd_args))

HandlePipelines ==
  /\ pc = "dispatch" /\ block = "pipelines"
  /\ Dispatched(handle_pipelines(Cur.cmd_args))

HandleLaunch ==
  /\ pc = "dispatch" /\ block = "launch"
  /\ Dispatched(handle_launch(Cur.cmd_args))

HandleInfo ==
  /\ pc = "dispatch" /\ block = "info"
  /\ Dispatched(handle_info(Cur.cmd_args))

HandleAddBlock ==
  /\ pc = "dispatch"
  /\ block \notin {"teams", "participants", "compute-envs", "pipelines", "launch", "info"}
  /\ Dispatched(handle_add_block(block, Cur.cmd_args))

\* the caller's loop moves to the next command specification
NextItem ==
  /\ pc = "applied"
  /\ IF idx < Len(cmd_args_list)
     THEN /\ idx' = idx + 1
          /\ mark' = Len(log)
          /\ pc' = "reconcile"
     ELSE /\ pc' = "done"
          /\ UNCHANGED <<idx, mark>>
  /\ resp' = NoResp
  /\ resp2' = NoResp
  /\ UNCHANGED <<block, doc, cmd_args_list, log, exc>>

Next ==
  \/ ParseYamlBlock
  \/ Reconcile
  \/ HandleAddBlock
  \/ HandleTeams
  \/ HandleParticipants
  \/ HandleComputeEnvs
  \/ HandlePipelines
  \/ HandleLaunch
  \/ HandleInfo
  \/ NextItem

Spec == Init /\ [][Next]_vars

(***************************************************************************)
(* Properties.                                                             *)
(***************************************************************************)
\* the item being applied and the commands run for it so far
Item == doc.items[idx]
ItemLog == SubSeq(log, mark + 1, Len(log))

\* the value the item declares for field k, as a string
Declared(item, k) == IF Has(item, k) THEN PyStr(Get(item, k)) ELSE None

IsList(c) == Len(c) >= 5 /\ c[2] = "-o" /\ c[5] = "list"
IsDelete(c) == Len(c) >= 3 /\ c[2] # "-o" /\ c[3] = "delete"
IsCreate(c) == Len(c) >= 3 /\ c[2] = block /\ c[3] \in {"add", "import"}

Deletes == SelectSeq(ItemLog, IsDelete)
Creates == SelectSeq(ItemLog, IsCreate)

\* an item of a generic-deletion type is applied with overwrite set, and the
\* listing of its workspace holds a resource of the item's name
C1_Case ==
  /\ idx >= 1
  /\ block \in generic_deletion
  /\ Truthy(Cur.overwrite)
  /\ Has(Item, "name")
  /\ resp.ok
  /\ \E i \in 1..Len(resp.recs) : resp.recs[i].name = Declared(Item, "name")

C1_ListCommand ==
  <<"tw", "-o", "json", block, "list", "-w", Declared(Item, "workspace")>>

C1_DeleteCommand ==
  <<"tw", block, "delete", "--name", Declared(Item, "name"),
    "--workspace", Declared(Item, "workspace")>>

C3_Matches(r) ==
  /\ r.orgName = Declared(Item, "organization")
  /\ r.workspaceName = Declared(Item, "name")

\* C3: applying a workspaces item runs at most one delete, and its --id is
\* the workspaceId of a listed record that matches both the declared
\* organization and the declared name; without such a record, no delete.
C3_DeletesOnlyTheMatch ==
  (idx >= 1 /\ block = "workspaces" /\ pc \in {"dispatch", "applied", "raised"}) =>
    /\ Len(Deletes) <= 1
    /\ \A k \in 1..Len(Deletes) :
         \E i \in 1..Len(resp.recs) :
           /\ C3_Matches(resp.recs[i])
           /\ Deletes[k] =
                <<"tw", "workspaces", "delete", "--id",
                  ToString(resp.recs[i].workspaceId)>>

\* two workspaces of the declared name, the first in another organization:
\* the second one is deleted
C3_Witness ==
  /\ pc = "applied"
  /\ block = "workspaces"
  /\ Len(resp.recs) = 2
  /\ resp.recs[1].workspaceName = resp.recs[2].workspaceName
  /\ resp.recs[1].orgName # resp.recs[2].orgName
  /\ C3_Matches(resp.recs[2])
  /\ Deletes = <<<<"tw", "workspaces", "delete", "--id", "2">>>>

\* C4, as claimed: a failure raised in the overwrite step (the list call,
\* the parsing of its response, the identifier resolution, the delete) does
\* not leave the reconciliation: the run never ends on it, and goes on to
\* the item's create command.
C4_FailureContained == ~(pc = "raised" /\ idx >= 1)

\* C5, as claimed: the pipelines dispatch runs at most one command: add with
\* all arguments if some argument is a URL, else import with all arguments
\* if some argument holds ".json", else nothing; for every argument order.
C5_SingleVerb ==
  (block = "pipelines" /\ pc = "applied") =>
    LET args == Cur.cmd_args
    IN Creates =
         IF \E i \in 1..Len(args) : is_url(args[i])
         THEN <<<<"tw", "pipelines", "add">> \o args>>
         ELSE IF \E i \in 1..Len(args) : HasJsonMarker(args[i])
              THEN <<<<"tw", "pipelines", "import">> \o args>>
              ELSE <<>>

\* the arguments without every --role flag and the token that follows it
\* (the flag's value), read from left to right
RECURSIVE WithoutRolePairs(_)
WithoutRolePairs(args) ==
  IF args = <<>> THEN <<>>
  ELSE IF Head(args) = "--role"
       THEN (IF Len(args) >= 2 THEN WithoutRolePairs(Tail(Tail(args))) ELSE <<>>)
       ELSE <<Head(args)>> \o WithoutRolePairs(Tail(args))

\* the commands the dispatch handler ran for the item
Dispatches == SelectSeq(ItemLog, LAMBDA c : ~IsList(c) /\ ~IsDelete(c))

\* C6: dispatching a participants item runs exactly two commands, add then
\* update; update gets the arguments as they are, add gets them without
\* each --role flag and its value, the other tokens in their order.
C6_AddThenUpdate ==
  (block = "participants" /\ pc = "applied") =>
    Dispatches =
      <<<<"tw", "participants", "add">> \o WithoutRolePairs(Cur.cmd_args),
        <<"tw", "participants", "update">> \o Cur.cmd_args>>

C6_Witness ==
  /\ block = "participants"
  /\ pc = "applied"
  /\ Len(Cur.cmd_args) = 6
  /\ Cur.cmd_args[3] = "--role"
  /\ Cur.cmd_args[4] = "admin"
  /\ Len(Dispatches[1]) = 7

\* C7, as claimed: parsing an absent section does not fail and returns one
\* command specification, that of the empty item, with overwrite false; a
\* present section returns one specification per item, in document order.
C7_AbsentSectionDefault ==
  pc # "start" =>
    IF ~doc.present
    THEN /\ exc = ""
         /\ Len(cmd_args_list) = 1
         /\ cmd_args_list[1].cmd_args = parse_fn(block, <<>>).cmd_args
         /\ cmd_args_list[1].overwrite = B(FALSE)
    ELSE exc # "KeyError" =>
           /\ Len(cmd_args_list) = Len(doc.items)
           /\ \A i \in 1..Len(doc.items) :
                cmd_args_list[i] = parse_block(block, doc.items[i])

\* C8: no mapped argument list (of teams: neither the primary list nor a
\* member list) holds an --overwrite token; the list is that of the item
\* without its overwrite field, which the specification's overwrite flag
\* carries, false when the item has none.
C8_OverwriteConsumed ==
  \A i \in 1..Len(cmd_args_list) :
    LET it == doc.items[i]
        sp == cmd_args_list[i]
    IN /\ \A j \in 1..Len(sp.cmd_args) : sp.cmd_args[j] # "--overwrite"
       /\ \A m \in 1..Len(sp.members) :
            \A j \in 1..Len(sp.members[m]) : sp.members[m][j] # "--overwrite"
       /\ sp.cmd_args = parse_fn(block, Without(it, "overwrite")).cmd_args
       /\ sp.overwrite = IF Has(it, "overwrite") THEN Get(it, "overwrite")
                         ELSE B(FALSE)

C8_Witness ==
  /\ block = "secrets"
  /\ Len(cmd_args_list) = 1
  /\ Len(doc.items[1]) = 3
  /\ doc.items[1][2] = [key |-> "overwrite", value |-> B(TRUE)]
  /\ Len(cmd_args_list[1].cmd_args) = 4

\* the fields that map to a positional repository reference
C9_RepoKeys(b) ==
  {"url", "pipeline"} \cup (IF b = "pipelines" THEN {"file-path"} ELSE {})

\* args is: the values of the fields pos, then the flag and value of each
\* field of flags, in order
C9_Layout(args, pos, flags) ==
  /\ Len(args) = Len(pos) + 2 * Len(flags)
  /\ \A i \in 1..Len(pos) : args[i] = PyStr(pos[i].value)
  /\ \A j \in 1..Len(flags) :
       /\ args[Len(pos) + 2 * j - 1] =
            (IF flags[j].key = "params" THEN "--params-file"
             ELSE "--" \o flags[j].key)
       /\ args[Len(pos) + 2 * j] =
            (IF flags[j].key = "params" THEN create_temp_yaml(flags[j].value)
             ELSE PyStr(flags[j].value))

C9_Repo(it, b) == SelectSeq(it, LAMBDA f : f.key \in C9_RepoKeys(b))
C9_Params(it) == SelectSeq(it, LAMBDA f : f.key = "params")
C9_Rest(it, b) ==
  SelectSeq(it, LAMBDA f : f.key \notin C9_RepoKeys(b) \cup {"params", "overwrite"})
C9_Flags(it, b) ==
  SelectSeq(it, LAMBDA f : f.key \notin C9_RepoKeys(b) \cup {"overwrite"})

\* C9, as claimed: for pipelines and for launch items, in every field
\* order, the mapped list is the repository references, then the
\* --params-file pair, then the remaining flags.
C9_RepoParamsFlags ==
  block \in {"pipelines", "launch"} =>
    \A i \in 1..Len(cmd_args_list) :
      LET it == doc.items[i]
      IN C9_Layout(cmd_args_list[i].cmd_args, C9_Repo(it, block),
                   C9_Params(it) \o C9_Rest(it, block))

\* C9, amended: that order holds for pipelines items; for a launch item the
\* repository references come first and the --params-file pair stands among
\* the remaining flags at the place of the params field, in field order.
C9_RepoFirst ==
  block \in {"pipelines", "launch"} =>
    \A i \in 1..Len(cmd_args_list) :
      LET it == doc.items[i]
      IN C9_Layout(cmd_args_list[i].cmd_args, C9_Repo(it, block),
                   IF block = "pipelines"
                   THEN C9_Params(it) \o C9_Rest(it, block)
                   ELSE C9_Flags(it, block))

C9_Witness ==
  /\ block = "launch"
  /\ Len(cmd_args_list) = 1
  /\ cmd_args_list[1].cmd_args =
       <<"nf-hello", "--workspace", "w", "--params-file", "tmp.yaml">>

\* C10, as claimed: mapping a datasets item that declares a field but lacks
\* one of file-path, name, workspace, description fails (KeyError, the
\* missing-field error) and returns no argument list.
C10_MissingFieldFails ==
  (/\ block = "datasets"
   /\ pc # "start"
   /\ \E i \in 1..Len(doc.items) :
        /\ Without(doc.items[i], "overwrite") # <<>>
        /\ ~({"file-path", "name", "workspace", "description"} \subseteq
               ItemKeys(doc.items[i])))
    => exc = "KeyError"

\* the item declares every key of its type's deletion policy
C11_Supplies(it, b) == operation_keys(b) \subseteq ItemKeys(it)

\* the values handle_overwrite reads back from a command specification (of
\* teams: from its primary list)
C11_ReverseMapped(b, sp) == get_values_from_cmd_args(sp.cmd_args, operation_keys(b))

\* reverse-mapping the i-th specification returns, for each policy key, the
\* value the i-th item declares for it, as a string
C11_Recovers(i) ==
  \A k \in operation_keys(block) :
    C11_ReverseMapped(block, cmd_args_list[i])[k] = PyStr(Get(doc.items[i], k))

\* C11, as claimed: for every type that has a deletion policy and every item
\* that declares all the policy's keys, in every field order and for every
\* value, reverse-mapping the mapped argument list with the policy's keys
\* returns for each key the declared value as a string: none is missing
\* (None) and none is another field's value.
C11_RoundTrip ==
  HasOperation(block) =>
    \A i \in 1..Len(cmd_args_list) :
      C11_Supplies(doc.items[i], block) => C11_Recovers(i)

\* a declared value that reads as a flag
C11_FlagLike(it) == \E j \in 1..Len(it) : StartsWithDashes(PyStr(it[j].value))

\* the round trip of the items it holds for: no declared value starts with
\* "--", and a datasets item declares file-path
C11_RoundTripPlain ==
  HasOperation(block) =>
    \A i \in 1..Len(cmd_args_list) :
      (/\ C11_Supplies(doc.items[i], block)
       /\ ~C11_FlagLike(doc.items[i])
       /\ block = "datasets" => Has(doc.items[i], "file-path"))
        => C11_Recovers(i)

\* a name that reads as a flag comes back as the positional that follows it
C11_OtherFieldsValue ==
  /\ block = "credentials"
  /\ Len(cmd_args_list) = 1
  /\ cmd_args_list[1].cmd_args = <<"--workspace", "w", "--name", "--name", "aws">>
  /\ C11_ReverseMapped(block, cmd_args_list[1]) = [name |-> "aws", workspace |-> "w"]

\* the policy keys of a datasets item without file-path come back missing
C11_Missing ==
  /\ block = "datasets"
  /\ Len(cmd_args_list) = 1
  /\ C11_Supplies(doc.items[1], block)
  /\ C11_ReverseMapped(block, cmd_args_list[1]) = [name |-> None, workspace |-> None]
====
